---- MODULE Spec2Model ----
(***************************************************************************)
(* Model of the RVFI bus of bridge-litex (src/rvfi.py):                    *)
(*   RiscvFormalInterface.__init__   builds the bus from its parameters,   *)
(*   RiscvFormalInterface.slice_nret splits an nret-wide bus into lanes,   *)
(*   IbexTracer.__init__             binds a 1-wide bus to ibex_tracer.    *)
(* A migen Signal is modelled by its bit width; a signal value is a        *)
(* sequence of bits, least-significant bit first.                          *)
(***************************************************************************)
EXTENDS Integers, Sequences, FiniteSets, TLC

VARIABLES
  heap,     \* the RiscvFormalInterface objects, in order of creation; the
            \* parent bus is object 1, the slices follow
  sliced,   \* the lists returned by the slice_nret calls, as object numbers
  tracers,  \* the IbexTracer objects constructed, with their port bindings
  sources,  \* the add_source calls the platform has received, in order
  probe,    \* the signal of the parent driven in simulation and its bits
  last      \* the last operation, its arguments and the exception it raised

vars == <<heap, sliced, tracers, sources, probe, last>>

(***************************************************************************)
(* Input sets and bounds.  The sets hold valid and invalid arguments       *)
(* (xlen 33 and 20, ilen 12, nret 0 and -1 fail an assertion).  A Signal   *)
(* is allocated for whatever width the constructor computes.               *)
(***************************************************************************)
XLENS == {32, 64, 33, 20}
ILENS == {16, 32, 0, 12}
NRETS == {-1, 0, 1, 2, 4}
CSR_NAMES == {"mstatus", "mcause"}
HARTS == {0, 3}
PLATFORMS == {"None", "platform"}
MaxSliceCalls == 2
MaxTracers == 2
MaxAddressBits == 8

EmptyDict == [k \in {} |-> 0]

\* dict | dict: the right operand wins on a common key
DictUnion(a, b) ==
  [k \in (DOMAIN a) \cup (DOMAIN b) |-> IF k \in DOMAIN b THEN b[k] ELSE a[k]]

(***************************************************************************)
(* RiscvFormalInterface.__init__                                           *)
(***************************************************************************)
AllParams(xlens, ilens, nrets, flags, csrsets) ==
  [xlen : xlens, ilen : ilens, nret : nrets,
   with_clk : flags, with_rst : flags, with_isn_meta : flags,
   with_int_reg : flags, with_pc : flags, with_mem : flags,
   with_spec_exec : flags, csr_names : csrsets]

\* variant: the nret assertion left out
AssertsHoldNoNret(p) ==
  /\ p.xlen % 8 = 0
  /\ p.ilen % 8 = 0

AssertsHold(p) ==
  /\ p.xlen % 8 = 0
  /\ p.ilen % 8 = 0
  /\ p.nret >= 1

ClkGroup(p) == "clk" :> 1

RstGroup(p) == "rst" :> 1

IsnMetaGroup(p) ==
  "rvfi_valid" :> p.nret @@
  "rvfi_order" :> p.nret * 64 @@
  "rvfi_insn"  :> p.nret * p.ilen @@
  "rvfi_trap"  :> p.nret @@
  "rvfi_halt"  :> p.nret @@
  "rvfi_intr"  :> p.nret @@
  "rvfi_mode"  :> p.nret * 2 @@
  "rvfi_ixl"   :> p.nret * 2

IntRegGroup(p) ==
  "rvfi_rs1_addr"  :> p.nret * 5 @@
  "rvfi_rs2_addr"  :> p.nret * 5 @@
  "rvfi_rs1_rdata" :> p.nret * p.xlen @@
  "rvfi_rs2_rdata" :> p.nret * p.xlen @@
  "rvfi_rd_addr"   :> p.nret * 5 @@
  "rvfi_rd_wdata"  :> p.nret * p.xlen

PcGroup(p) ==
  "rvfi_pc_rdata" :> p.nret * p.xlen @@
  "rvfi_pc_wdata" :> p.nret * p.xlen

\* variant: the byte masks sized like the data
MemGroupWideMasks(p) ==
  "rvfi_mem_addr"  :> p.nret * p.xlen @@
  "rvfi_mem_rmask" :> p.nret * p.xlen @@
  "rvfi_mem_wmask" :> p.nret * p.xlen @@
  "rvfi_mem_rdata" :> p.nret * p.xlen @@
  "rvfi_mem_wdata" :> p.nret * p.xlen

MemGroup(p) ==
  "rvfi_mem_addr"  :> p.nret * p.xlen @@
  "rvfi_mem_rmask" :> p.nret * (p.xlen \div 8) @@
  "rvfi_mem_wmask" :> p.nret * (p.xlen \div 8) @@
  "rvfi_mem_rdata" :> p.nret * p.xlen @@
  "rvfi_mem_wdata" :> p.nret * p.xlen

CsrGroup(p, csr_name) ==
  ("rvfi_csr_" \o csr_name \o "_rmask") :> p.nret * p.xlen @@
  ("rvfi_csr_" \o csr_name \o "_wmask") :> p.nret * p.xlen @@
  ("rvfi_csr_" \o csr_name \o "_rdata") :> p.nret * p.xlen @@
  ("rvfi_csr_" \o csr_name \o "_wdata") :> p.nret * p.xlen

RECURSIVE CsrLoop(_, _, _)
\* for csr_name in csr_names: interface |= {...}
CsrLoop(p, names, interface) ==
  IF names = {} THEN interface
  ELSE LET csr_name == CHOOSE n \in names : TRUE
       IN  CsrLoop(p, names \ {csr_name},
                   DictUnion(interface, CsrGroup(p, csr_name)))

Interface(p) ==
  LET i1 == IF p.with_clk THEN DictUnion(EmptyDict, ClkGroup(p)) ELSE EmptyDict
      i2 == IF p.with_rst THEN DictUnion(i1, RstGroup(p)) ELSE i1
      i3 == IF p.with_isn_meta THEN DictUnion(i2, IsnMetaGroup(p)) ELSE i2
      i4 == IF p.with_int_reg THEN DictUnion(i3, IntRegGroup(p)) ELSE i3
      i5 == IF p.with_pc THEN DictUnion(i4, PcGroup(p)) ELSE i4
      i6 == IF p.with_mem THEN DictUnion(i5, MemGroup(p)) ELSE i5
  IN  CsrLoop(p, p.csr_names, i6)

NretSignalNames(signal_names) == {sn \in signal_names : sn \notin {"clk", "rst"}}

NoParams == [unset |-> TRUE]

\* the object before __init__ has stored anything on it
BlankBus ==
  [params |-> NoParams, signal_names |-> {}, nret_signal_names |-> {},
   signals |-> EmptyDict, comb |-> <<>>]

\* result of RiscvFormalInterface(**p): the exception raised ("none" when it
\* returns) and the object as __init__ left it
Construct(p) ==
  IF ~AssertsHold(p)
  THEN [raised |-> "AssertionError", self |-> BlankBus]
  ELSE LET interface == Interface(p)
       IN  [raised |-> "none",
            self |-> [params |-> p,
                      signal_names |-> DOMAIN interface,
                      nret_signal_names |-> NretSignalNames(DOMAIN interface),
                      signals |-> interface,
                      comb |-> <<>>]]

NoOp == [op |-> "init", raised |-> "none"]

NoProbe == [name |-> "", bits |-> <<>>]

Init ==
  /\ heap = <<>>
  /\ sliced = <<>>
  /\ tracers = <<>>
  /\ sources = <<>>
  /\ probe = NoProbe
  /\ last = NoOp

\* B = RiscvFormalInterface(**p), the first object of the program; a failed
\* construction propagates to the caller and ends the build
New(params) ==
  /\ last.op = "init"
  /\ \E p \in params :
       LET r == Construct(p)
       IN  /\ heap' = IF r.raised = "none" THEN <<r.self>> ELSE heap
           /\ last' = [op |-> "new", raised |-> r.raised, params |-> p,
                       self |-> r.self]
  /\ UNCHANGED <<sliced, tracers, sources, probe>>

(***************************************************************************)
(* RiscvFormalInterface.slice_nret                                         *)
(***************************************************************************)
\* self.params | {"nret": 1}
SlicedParams(params) == [params EXCEPT !.nret = 1]

\* tgt.<signal_name>.eq(self.<signal_name>)
GlobalBinding(tgt, signal_name) ==
  [tgt |-> tgt, dst |-> signal_name, op |-> "sig", src |-> signal_name,
   start |-> 0, stop |-> 0]

\* variant: every lane reads the bits of lane 0
LaneBindingLane0(tgt, signal_name, width, ret_idx) ==
  [tgt |-> tgt, dst |-> signal_name, op |-> "slice", src |-> signal_name,
   start |-> 0, stop |-> width]

\* variant: the upper bound of the range taken as inclusive
LaneBindingInclusive(tgt, signal_name, width, ret_idx) ==
  [tgt |-> tgt, dst |-> signal_name, op |-> "slice", src |-> signal_name,
   start |-> ret_idx * width, stop |-> (ret_idx + 1) * width - 1]

\* tgt.<signal_name>.eq(nret_signal[ret_idx*width:(ret_idx+1)*width])
LaneBinding(tgt, signal_name, width, ret_idx) ==
  [tgt |-> tgt, dst |-> signal_name, op |-> "slice", src |-> signal_name,
   start |-> ret_idx * width, stop |-> (ret_idx + 1) * width]

RECURSIVE GlobalLoop(_, _, _)
\* for signal_name in (self.signal_names - self.nret_signal_names)
GlobalLoop(tgt, names, comb) ==
  IF names = {} THEN comb
  ELSE LET signal_name == CHOOSE n \in names : TRUE
       IN  GlobalLoop(tgt, names \ {signal_name},
                      Append(comb, GlobalBinding(tgt, signal_name)))

RECURSIVE NretLoop(_, _, _, _, _, _)
\* for signal_name in self.nret_signal_names, with its two assertions
NretLoop(self, tgt, tgt_obj, ret_idx, names, comb) ==
  IF names = {} THEN [raised |-> "none", comb |-> comb]
  ELSE LET signal_name == CHOOSE n \in names : TRUE
           nret  == self.params.nret
           len   == self.signals[signal_name]
           width == len \div nret
       IN  IF len % nret # 0 \/ tgt_obj.signals[signal_name] # width
           THEN [raised |-> "AssertionError", comb |-> comb]
           ELSE NretLoop(self, tgt, tgt_obj, ret_idx, names \ {signal_name},
                         Append(comb, LaneBinding(tgt, signal_name, width, ret_idx)))

\* variant: the parameters of the slices written into self.params in place
SelfAfterSliceInPlace(self, comb) ==
  [self EXCEPT !.comb = comb, !.params = SlicedParams(self.params)]

\* self after the call: only the statements added to self.comb
SelfAfterSlice(self, comb) == [self EXCEPT !.comb = comb]

RECURSIVE SliceLoop(_, _, _, _, _)
\* for ret_idx in range(0, nret); base is the number of objects allocated
\* before the call, objs the slices built so far
SliceLoop(self, base, ret_idx, comb, objs) ==
  IF ret_idx >= self.params.nret
  THEN [raised |-> "none", self |-> SelfAfterSlice(self, comb), objs |-> objs]
  ELSE LET c   == Construct(SlicedParams(self.params))
           tgt == base + Len(objs) + 1
       IN  IF c.raised # "none"
           THEN [raised |-> c.raised, self |-> SelfAfterSlice(self, comb),
                 objs |-> objs]
           ELSE LET g == GlobalLoop(tgt, self.signal_names \ self.nret_signal_names,
                                    comb)
                    n == NretLoop(self, tgt, c.self, ret_idx,
                                  self.nret_signal_names, g)
                IN  IF n.raised # "none"
                    THEN [raised |-> n.raised,
                          self |-> SelfAfterSlice(self, n.comb),
                          objs |-> Append(objs, c.self)]
                    ELSE SliceLoop(self, base, ret_idx + 1, n.comb,
                                   Append(objs, c.self))

slice_nret(self, base) == SliceLoop(self, base, 0, self.comb, <<>>)

\* the list `sliced` returned by the call: the objects built, in lane order
SlicedIds(base, objs) == [i \in 1..Len(objs) |-> base + i]

\* cpu_rvfi_slices = self.cpu_rvfi.slice_nret(); the parent is object 1
SliceNret ==
  /\ heap # <<>>
  /\ probe = NoProbe
  /\ Len(sliced) < MaxSliceCalls
  /\ LET r == slice_nret(heap[1], Len(heap))
     IN  /\ heap' = [heap EXCEPT ![1] = r.self] \o r.objs
         /\ sliced' = IF r.raised = "none"
                      THEN Append(sliced, SlicedIds(Len(heap), r.objs))
                      ELSE sliced
         /\ last' = [op |-> "slice_nret", raised |-> r.raised]
  /\ UNCHANGED <<tracers, sources, probe>>

(***************************************************************************)
(* Signal values under the combinational statements of the parent.         *)
(***************************************************************************)
Zeros(w) == [k \in 1..w |-> 0]

Ones(w) == [k \in 1..w |-> 1]

\* the pattern whose bit at position pos (0 = least significant) is bit j of
\* the binary numeral of pos: over j, every position gets its own code
AddressBit(w, j) == [k \in 1..w |-> ((k - 1) \div (2 ^ j)) % 2]

\* bit patterns driven in simulation: constant 0, constant 1 and the address
\* patterns that tell any two bit positions of the signal apart
Patterns(w) ==
  {Zeros(w), Ones(w)}
  \cup {AddressBit(w, j) : j \in {i \in 0..(MaxAddressBits - 1) : 2 ^ i < w}}

\* assignment to a signal of width w truncates or zero-extends the value
Resize(bits, w) ==
  [k \in 1..w |-> IF k <= Len(bits) THEN bits[k] ELSE 0]

Invert(bits) == [k \in 1..Len(bits) |-> 1 - bits[k]]

\* value driven on the parent's signal by its environment
ParentValue(name) ==
  IF probe.name = name THEN probe.bits ELSE Zeros(heap[1].signals[name])

\* right-hand side of a statement of self.comb
RhsValue(binding) ==
  IF binding.op = "sig" THEN ParentValue(binding.src)
  ELSE SubSeq(ParentValue(binding.src), binding.start + 1, binding.stop)

Drivers(id, name) ==
  {j \in 1..Len(heap[1].comb) :
     heap[1].comb[j].tgt = id /\ heap[1].comb[j].dst = name}

\* an undriven signal keeps its reset value 0; of several statements driving
\* a signal the last one wins
SignalValue(id, name) ==
  IF id = 1 THEN ParentValue(name)
  ELSE LET drivers == Drivers(id, name)
       IN  IF drivers = {} THEN Zeros(heap[id].signals[name])
           ELSE LET j == CHOOSE d \in drivers : \A e \in drivers : e <= d
                IN  Resize(RhsValue(heap[1].comb[j]), heap[id].signals[name])

\* simulation of the elaborated design: the environment drives a bit pattern
\* on a signal of the parent
Drive(names) ==
  /\ heap # <<>>
  /\ probe = NoProbe
  /\ \E name \in (heap[1].signal_names \cap names) :
       \E bits \in Patterns(heap[1].signals[name]) :
         probe' = [name |-> name, bits |-> bits]
  /\ last' = [op |-> "drive", raised |-> "none"]
  /\ UNCHANGED <<heap, sliced, tracers, sources>>

(***************************************************************************)
(* IbexTracer.__init__                                                     *)
(***************************************************************************)
PortSig(port, name) == [port |-> port, kind |-> "sig", attr |-> name]

PortNot(port, name) == [port |-> port, kind |-> "not", attr |-> name]

PortHart(port) == [port |-> port, kind |-> "hart", attr |-> ""]

PortZeroLike(port, name) == [port |-> port, kind |-> "zero", attr |-> name]

\* the keyword arguments of Instance("ibex_tracer", ...), in order
TracerPorts ==
  << PortSig("i_clk_i", "clk"),
     PortNot("i_rst_ni", "rst"),
     PortHart("i_hart_id_i"),
     PortSig("i_rvfi_valid", "rvfi_valid"),
     PortSig("i_rvfi_order", "rvfi_order"),
     PortSig("i_rvfi_insn", "rvfi_insn"),
     PortSig("i_rvfi_trap", "rvfi_trap"),
     PortSig("i_rvfi_halt", "rvfi_halt"),
     PortSig("i_rvfi_intr", "rvfi_intr"),
     PortSig("i_rvfi_mode", "rvfi_mode"),
     PortSig("i_rvfi_ixl", "rvfi_ixl"),
     PortSig("i_rvfi_rs1_addr", "rvfi_rs1_addr"),
     PortSig("i_rvfi_rs2_addr", "rvfi_rs2_addr"),
     PortZeroLike("i_rvfi_rs3_addr", "rvfi_rs1_addr"),
     PortSig("i_rvfi_rs1_rdata", "rvfi_rs1_rdata"),
     PortSig("i_rvfi_rs2_rdata", "rvfi_rs2_rdata"),
     PortZeroLike("i_rvfi_rs3_rdata", "rvfi_rs1_rdata"),
     PortSig("i_rvfi_rd_addr", "rvfi_rd_addr"),
     PortSig("i_rvfi_rd_wdata", "rvfi_rd_wdata"),
     PortSig("i_rvfi_pc_rdata", "rvfi_pc_rdata"),
     PortSig("i_rvfi_pc_wdata", "rvfi_pc_wdata"),
     PortSig("i_rvfi_mem_addr", "rvfi_mem_addr"),
     PortSig("i_rvfi_mem_rmask", "rvfi_mem_rmask"),
     PortSig("i_rvfi_mem_wmask", "rvfi_mem_wmask"),
     PortSig("i_rvfi_mem_rdata", "rvfi_mem_rdata"),
     PortSig("i_rvfi_mem_wdata", "rvfi_mem_wdata") >>

\* variant: the reset passed through without inversion
PortExprNoInvert(rvfi, spec, cpu_hart) ==
  CASE spec.kind = "sig"  -> [op |-> "sig", name |-> spec.attr, value |-> 0,
                              width |-> rvfi.signals[spec.attr]]
    [] spec.kind = "not"  -> [op |-> "sig", name |-> spec.attr, value |-> 0,
                              width |-> rvfi.signals[spec.attr]]
    [] spec.kind = "hart" -> [op |-> "const", name |-> "", value |-> cpu_hart,
                              width |-> 32]
    [] spec.kind = "zero" -> [op |-> "const", name |-> "", value |-> 0,
                              width |-> rvfi.signals[spec.attr]]

\* the expression bound to one port of the instance
PortExpr(rvfi, spec, cpu_hart) ==
  CASE spec.kind = "sig"  -> [op |-> "sig", name |-> spec.attr, value |-> 0,
                              width |-> rvfi.signals[spec.attr]]
    [] spec.kind = "not"  -> [op |-> "not", name |-> spec.attr, value |-> 0,
                              width |-> rvfi.signals[spec.attr]]
    [] spec.kind = "hart" -> [op |-> "const", name |-> "", value |-> cpu_hart,
                              width |-> 32]
    [] spec.kind = "zero" -> [op |-> "const", name |-> "", value |-> 0,
                              width |-> rvfi.signals[spec.attr]]

\* the bus attributes the keyword arguments read
AttrsRead == {TracerPorts[k].attr : k \in {j \in 1..Len(TracerPorts) :
                                             TracerPorts[j].kind # "hart"}}

\* os.path.join(base_path, name), base_path = <data_location>/rtl
SourcePath(name) == "pythondata_cpu_ibex" \o "/" \o "rtl" \o "/" \o name

\* variant: the tracer module registered before its packages
TracerSourcesModuleFirst ==
  << SourcePath("ibex_tracer"), SourcePath("ibex_pkg"),
     SourcePath("ibex_tracer_pkg") >>

TracerSources ==
  << SourcePath("ibex_pkg"), SourcePath("ibex_tracer_pkg"),
     SourcePath("ibex_tracer") >>

\* the instance ports bound from a bus that has every attribute read
BoundPorts(rvfi, cpu_hart) ==
  [port \in {TracerPorts[k].port : k \in 1..Len(TracerPorts)} |->
     LET k == CHOOSE j \in 1..Len(TracerPorts) : TracerPorts[j].port = port
     IN  PortExpr(rvfi, TracerPorts[k], cpu_hart)]

\* variant: the nret assertion left out
IbexTracerNoAssert(rvfi, cpu_hart, platform) ==
  IF ~(AttrsRead \subseteq DOMAIN rvfi.signals)
  THEN [raised |-> "AttributeError", ports |-> EmptyDict, added |-> <<>>]
  ELSE [raised |-> "none",
        ports |-> BoundPorts(rvfi, cpu_hart),
        added |-> IF platform # "None" THEN TracerSources ELSE <<>>]

\* variant: a port whose bus signal is absent bound to a zero constant
IbexTracerPadAbsent(rvfi, cpu_hart, platform) ==
  IF rvfi.params.nret # 1
  THEN [raised |-> "AssertionError", ports |-> EmptyDict, added |-> <<>>]
  ELSE [raised |-> "none",
        ports |-> [port \in {TracerPorts[k].port : k \in 1..Len(TracerPorts)} |->
                     LET k == CHOOSE j \in 1..Len(TracerPorts) :
                                TracerPorts[j].port = port
                     IN  IF TracerPorts[k].kind = "hart"
                            \/ TracerPorts[k].attr \in DOMAIN rvfi.signals
                         THEN PortExpr(rvfi, TracerPorts[k], cpu_hart)
                         ELSE [op |-> "const", name |-> "", value |-> 0,
                               width |-> 1]],
        added |-> IF platform # "None" THEN TracerSources ELSE <<>>]

\* result of IbexTracer(rvfi, cpu_hart, platform): the exception raised, the
\* instance added to self.specials and the add_source calls made
IbexTracer(rvfi, cpu_hart, platform) ==
  IF rvfi.params.nret # 1
  THEN [raised |-> "AssertionError", ports |-> EmptyDict, added |-> <<>>]
  ELSE IF ~(AttrsRead \subseteq DOMAIN rvfi.signals)
  THEN [raised |-> "AttributeError", ports |-> EmptyDict, added |-> <<>>]
  ELSE [raised |-> "none",
        ports |-> BoundPorts(rvfi, cpu_hart),
        added |-> IF platform # "None" THEN TracerSources ELSE <<>>]

\* IbexTracer(cpu_rvfi, cpu_hart=..., platform=...) on any bus of the program
NewTracer ==
  /\ probe = NoProbe
  /\ Len(tracers) < MaxTracers
  /\ \E id \in 1..Len(heap), cpu_hart \in HARTS, platform \in PLATFORMS :
       LET r == IbexTracer(heap[id], cpu_hart, platform)
       IN  /\ tracers' = IF r.raised = "none"
                         THEN Append(tracers, [rvfi |-> id, cpu_hart |-> cpu_hart,
                                               platform |-> platform,
                                               ports |-> r.ports])
                         ELSE tracers
           /\ sources' = sources \o r.added
           /\ last' = [op |-> "tracer", raised |-> r.raised, rvfi |-> id,
                       cpu_hart |-> cpu_hart, platform |-> platform]
  /\ UNCHANGED <<heap, sliced, probe>>

RECURSIVE ConstBits(_, _)
\* the bits of Constant(value, bits_sign=width), least significant first
ConstBits(value, width) ==
  IF width = 0 THEN <<>>
  ELSE <<value % 2>> \o ConstBits(value \div 2, width - 1)

\* value seen on a port of a tracer instance

PortValue(t, port) ==
  LET e == t.ports[port]
  IN  CASE e.op = "sig"   -> SignalValue(t.rvfi, e.name)
        [] e.op = "not"   -> Invert(SignalValue(t.rvfi, e.name))
        [] e.op = "const" -> ConstBits(e.value, e.width)

(***************************************************************************)
(* Specifications.                                                         *)
(***************************************************************************)
ComposeParams == AllParams(XLENS, ILENS, NRETS, BOOLEAN, SUBSET CSR_NAMES)

NewAny == New(ComposeParams)

Next == NewAny

Spec == Init /\ [][Next]_vars

AllOn == {TRUE}

SliceParams ==
  AllParams({32}, {16}, {1, 2, 4}, AllOn, {{}, {"mstatus"}})
  \cup {p \in AllParams({32}, {16}, {1, 2, 4}, BOOLEAN, {{}}) :
          Cardinality({f \in {"with_clk", "with_rst", "with_isn_meta",
                              "with_int_reg", "with_pc", "with_mem"} : ~p[f]})
            \in {1, 6} /\ p.with_spec_exec}

NewSliceable == New(SliceParams)

DriveAny == Drive(heap[1].signal_names)

NextSlice == NewSliceable \/ SliceNret \/ DriveAny

SpecSlice == Init /\ [][NextSlice]_vars

TraceParams ==
  AllParams({32, 64}, {32}, {1, 2}, AllOn, {{}, {"mstatus"}})
  \cup {p \in AllParams({32}, {32}, {1, 2}, BOOLEAN, {{}}) : p.with_spec_exec}

NewTraceable == New(TraceParams)

DriveGlobal == Drive({"clk", "rst"})

NextTrace == NewTraceable \/ SliceNret \/ NewTracer \/ DriveGlobal

SpecTrace == Init /\ [][NextTrace]_vars

(***************************************************************************)
(* The signal catalogue of the interface: name, per-lane width, group.     *)
(***************************************************************************)
Entry(name, lane, flag) == [name |-> name, lane |-> lane, flag |-> flag]

Catalog ==
  { Entry("clk", "global", "with_clk"),
    Entry("rst", "global", "with_rst"),
    Entry("rvfi_valid", "1", "with_isn_meta"),
    Entry("rvfi_order", "64", "with_isn_meta"),
    Entry("rvfi_insn", "ilen", "with_isn_meta"),
    Entry("rvfi_trap", "1", "with_isn_meta"),
    Entry("rvfi_halt", "1", "with_isn_meta"),
    Entry("rvfi_intr", "1", "with_isn_meta"),
    Entry("rvfi_mode", "2", "with_isn_meta"),
    Entry("rvfi_ixl", "2", "with_isn_meta"),
    Entry("rvfi_rs1_addr", "5", "with_int_reg"),
    Entry("rvfi_rs2_addr", "5", "with_int_reg"),
    Entry("rvfi_rs1_rdata", "xlen", "with_int_reg"),
    Entry("rvfi_rs2_rdata", "xlen", "with_int_reg"),
    Entry("rvfi_rd_addr", "5", "with_int_reg"),
    Entry("rvfi_rd_wdata", "xlen", "with_int_reg"),
    Entry("rvfi_pc_rdata", "xlen", "with_pc"),
    Entry("rvfi_pc_wdata", "xlen", "with_pc"),
    Entry("rvfi_mem_addr", "xlen", "with_mem"),
    Entry("rvfi_mem_rmask", "xlen/8", "with_mem"),
    Entry("rvfi_mem_wmask", "xlen/8", "with_mem"),
    Entry("rvfi_mem_rdata", "xlen", "with_mem"),
    Entry("rvfi_mem_wdata", "xlen", "with_mem") }

GroupFlags ==
  {"with_clk", "with_rst", "with_isn_meta", "with_int_reg", "with_pc", "with_mem"}

ExpectedWidth(e, p) ==
  CASE e.lane = "global" -> 1
    [] e.lane = "1"      -> p.nret
    [] e.lane = "2"      -> p.nret * 2
    [] e.lane = "5"      -> p.nret * 5
    [] e.lane = "64"     -> p.nret * 64
    [] e.lane = "ilen"   -> p.nret * p.ilen
    [] e.lane = "xlen"   -> p.nret * p.xlen
    [] e.lane = "xlen/8" -> p.nret * (p.xlen \div 8)

CsrSuffixes == {"rmask", "wmask", "rdata", "wdata"}

ExpectedCsrNames(p) ==
  {"rvfi_csr_" \o n \o "_" \o suffix : n \in p.csr_names, suffix \in CsrSuffixes}

Enabled(p) == {e \in Catalog : p[e.flag]}

AllGroups(p) == \A f \in GroupFlags : p[f]

Built == last.op = "new" /\ last.raised = "none"

(***************************************************************************)
(* C1: for xlen in {32,64}, ilen in {16,32}, nret in {1,2,4}, every flag   *)
(* combination and every set of extension-register names, the bus built    *)
(* has exactly the signals of the enabled groups plus four per extension   *)
(* register, each with width nret times its per-lane width (1 for clock    *)
(* and reset), and no signal of a disabled group.                          *)
(***************************************************************************)
Thm_C1 ==
  (/\ Built
   /\ last.params.xlen \in {32, 64}
   /\ last.params.ilen \in {16, 32}
   /\ last.params.nret \in {1, 2, 4})
  => LET p == last.params
         b == heap[1]
     IN  /\ b.signal_names = {e.name : e \in Enabled(p)} \cup ExpectedCsrNames(p)
         /\ DOMAIN b.signals = b.signal_names
         /\ \A e \in Enabled(p) : b.signals[e.name] = ExpectedWidth(e, p)
         /\ \A n \in ExpectedCsrNames(p) : b.signals[n] = p.nret * p.xlen
         /\ \A e \in Catalog \ Enabled(p) : e.name \notin b.signal_names
         /\ Cardinality(b.signal_names) =
              Cardinality(Enabled(p)) + 4 * Cardinality(p.csr_names)

Wit_C1 ==
  /\ Built
  /\ last.params.xlen = 64 /\ last.params.ilen = 16 /\ last.params.nret = 4
  /\ last.params.csr_names = {"mstatus", "mcause"}
  /\ ~last.params.with_mem /\ last.params.with_isn_meta
  /\ "rvfi_csr_mcause_wdata" \in heap[1].signal_names
  /\ heap[1].signals["rvfi_insn"] = 64

(***************************************************************************)
(* C4: construction fails exactly when xlen or ilen is not a multiple of   *)
(* 8 or nret < 1; a failed construction produces no bus, not even one      *)
(* with parameters or signals set; every other construction succeeds.      *)
(***************************************************************************)
Violates(p) == p.xlen % 8 # 0 \/ p.ilen % 8 # 0 \/ p.nret < 1

Cex_C5 ==
  (/\ last.op = "new"
   /\ last.params.ilen = 0
   /\ last.params.xlen % 8 = 0
   /\ last.params.nret >= 1)
  => last.raised # "none"

(***************************************************************************)
(* C2: after slicing, concatenating the values of the identically named    *)
(* signal of the slices in lane order, lane 0 least significant, gives     *)
(* the value of the parent's signal bit for bit, for every                 *)
(* retirement-scaled signal and every driven pattern.                      *)
(***************************************************************************)
RECURSIVE Cat(_)
Cat(seqs) == IF seqs = <<>> THEN <<>> ELSE Head(seqs) \o Cat(Tail(seqs))

LaneValues(ids, name) == [i \in 1..Len(ids) |-> SignalValue(ids[i], name)]

Thm_C2 ==
  \A c \in 1..Len(sliced) :
    \A name \in heap[1].nret_signal_names :
      Cat(LaneValues(sliced[c], name)) = ParentValue(name)

Wit_C2 ==
  /\ Len(sliced) >= 1
  /\ heap[1].params.nret = 4
  /\ probe.name = "rvfi_order"
  /\ probe.bits = AddressBit(256, 6)
  /\ SignalValue(sliced[1][3], "rvfi_order") = Zeros(64)
  /\ SignalValue(sliced[1][4], "rvfi_order") = Ones(64)

(***************************************************************************)
(* C3: slice_nret returns exactly nret buses in lane order; slice i has    *)
(* the parent's parameters with nret = 1 and the parent's signal names;    *)
(* each retirement-scaled signal of width W has width W/N in the slice     *)
(* and is driven by exactly bits [i*w, (i+1)*w) of the parent's signal;    *)
(* clock and reset of every slice are driven by the whole parent signal.   *)
(***************************************************************************)
\* position of a slice in the list returned by call c, counted from 0
LaneOf(c, id) == (CHOOSE i \in 1..Len(sliced[c]) : sliced[c][i] = id) - 1

\* the statement slice_nret must have emitted for signal `name` of slice id
ExpectedStatement(c, id, name) ==
  IF name \in {"clk", "rst"}
  THEN [tgt |-> id, dst |-> name, op |-> "sig", src |-> name,
        start |-> 0, stop |-> 0]
  ELSE LET w == heap[1].signals[name] \div heap[1].params.nret
           i == LaneOf(c, id)
       IN  [tgt |-> id, dst |-> name, op |-> "slice", src |-> name,
            start |-> i * w, stop |-> (i + 1) * w]

Thm_C3 ==
  heap # <<>> =>
  LET B == heap[1]
      N == B.params.nret
      comb == B.comb
  IN  /\ \A c \in 1..Len(sliced) :
           /\ Len(sliced[c]) = N
           /\ \A i \in 0..(N - 1) :
                LET S == heap[sliced[c][i + 1]]
                IN  /\ S.params = [B.params EXCEPT !.nret = 1]
                    /\ S.signal_names = B.signal_names
                    /\ \A name \in B.nret_signal_names :
                         /\ B.signals[name] = N * (B.signals[name] \div N)
                         /\ S.signals[name] = B.signals[name] \div N
                    /\ \A name \in {probe.name} \cap B.signal_names :
                         LET w  == S.signals[name]
                             lo == IF name \in {"clk", "rst"} THEN 0 ELSE i * w
                         IN  SignalValue(sliced[c][i + 1], name) =
                               [k \in 1..w |-> probe.bits[lo + k]]
      \* every signal of every slice has exactly one driver, the expected one
      /\ {<<comb[j].tgt, comb[j].dst>> : j \in 1..Len(comb)} =
           (UNION {{sliced[c][i] : i \in 1..Len(sliced[c])} : c \in 1..Len(sliced)})
           \X B.signal_names
      /\ Len(comb) = Len(sliced) * N * Cardinality(B.signal_names)
      /\ \A j \in 1..Len(comb) :
           \E c \in 1..Len(sliced) :
             /\ \E i \in 1..Len(sliced[c]) : sliced[c][i] = comb[j].tgt
             /\ comb[j] = ExpectedStatement(c, comb[j].tgt, comb[j].dst)

Wit_C3 ==
  /\ Len(sliced) = 2
  /\ heap[1].params.nret = 4
  /\ heap[1].params.csr_names = {"mstatus"}
  /\ probe.name = "rvfi_csr_mstatus_wdata"
  /\ probe.bits = AddressBit(128, 5)
  /\ SignalValue(sliced[2][1], "rvfi_csr_mstatus_wdata") = Zeros(32)
  /\ SignalValue(sliced[2][2], "rvfi_csr_mstatus_wdata") = Ones(32)

(***************************************************************************)
(* C6: constructing the tracer on a bus whose nret is not 1 fails, creates *)
(* no tracer and registers no source; on a bus with nret = 1 and all       *)
(* feature groups it succeeds.                                             *)
(***************************************************************************)
Thm_C6 ==
  [][last'.op = "tracer"
       => LET b == heap[last'.rvfi]
          IN  /\ b.params.nret # 1
                   => /\ last'.raised = "AssertionError"
                      /\ tracers' = tracers
                      /\ sources' = sources
              /\ (b.params.nret = 1 /\ AllGroups(b.params))
                   => /\ last'.raised = "none"
                      /\ Len(tracers') = Len(tracers) + 1]_vars

Wit_C6 ==
  /\ last.op = "tracer"
  /\ last.raised = "AssertionError"
  /\ heap[last.rvfi].params.nret = 2
  /\ AllGroups(heap[last.rvfi].params)
  /\ Len(tracers) = 1
  /\ Len(sources) = 3

(***************************************************************************)
(* C7 as stated: on an nret = 1 bus lacking a feature group the tracer is  *)
(* constructed and the ports the bus does not supply are zero constants.   *)
(***************************************************************************)
Cex_C7 ==
  (/\ last.op = "tracer"
   /\ heap[last.rvfi].params.nret = 1
   /\ ~AllGroups(heap[last.rvfi].params))
  => last.raised = "none"

(***************************************************************************)
(* C7 amended: on an nret = 1 bus lacking one or more of the six feature   *)
(* groups the construction fails on the lookup of the missing signal,      *)
(* creating no tracer and registering no source; the only zero-constant    *)
(* ports of a tracer are the two third-source-register ports.              *)
(***************************************************************************)
ZeroPorts(t) ==
  {port \in DOMAIN t.ports : t.ports[port].op = "const" /\ t.ports[port].value = 0
                             /\ port # "i_hart_id_i"}

Thm_C7 ==
  [][last'.op = "tracer"
       => /\ (heap[last'.rvfi].params.nret = 1
              /\ ~AllGroups(heap[last'.rvfi].params))
               => /\ last'.raised = "AttributeError"
                  /\ tracers' = tracers
                  /\ sources' = sources
          /\ \A k \in 1..Len(tracers') :
               /\ AllGroups(heap[tracers'[k].rvfi].params)
               /\ ZeroPorts(tracers'[k]) = {"i_rvfi_rs3_addr", "i_rvfi_rs3_rdata"}]_vars

Wit_C7 ==
  /\ last.op = "tracer"
  /\ last.raised = "AttributeError"
  /\ heap[last.rvfi].params.nret = 1
  /\ ~heap[last.rvfi].params.with_pc
  /\ heap[last.rvfi].params.with_int_reg
  /\ last.rvfi > 1
  /\ tracers = <<>>
  /\ sources = <<>>

(***************************************************************************)
(* C8: on an nret = 1 bus with all groups, the third source-register       *)
(* address port is the constant 0 of width 5 and the data port the         *)
(* constant 0 of width xlen, the active-low reset port is the negation of  *)
(* the bus's reset for every reset value, the hart-id port is the 32-bit   *)
(* constant of the given hart, and every other port is the identically     *)
(* named bus signal.                                                       *)
(***************************************************************************)
PassThrough == {e.name : e \in Catalog} \ {"clk", "rst"}

Thm_C8 ==
  \A k \in 1..Len(tracers) :
    LET t    == tracers[k]
        S    == heap[t.rvfi]
        xlen == S.params.xlen
    IN  /\ DOMAIN t.ports =
             {"i_" \o name : name \in PassThrough}
             \cup {"i_clk_i", "i_rst_ni", "i_hart_id_i",
                   "i_rvfi_rs3_addr", "i_rvfi_rs3_rdata"}
        /\ t.ports["i_rvfi_rs3_addr"].op = "const"
        /\ PortValue(t, "i_rvfi_rs3_addr") = <<0, 0, 0, 0, 0>>
        /\ t.ports["i_rvfi_rs3_rdata"].op = "const"
        /\ PortValue(t, "i_rvfi_rs3_rdata") = [j \in 1..xlen |-> 0]
        /\ PortValue(t, "i_rst_ni") = <<1 - SignalValue(t.rvfi, "rst")[1]>>
        /\ t.ports["i_hart_id_i"].op = "const"
        /\ t.ports["i_hart_id_i"].width = 32
        /\ t.ports["i_hart_id_i"].value = t.cpu_hart
        /\ t.ports["i_clk_i"].op = "sig"
        /\ t.ports["i_clk_i"].name = "clk"
        /\ PortValue(t, "i_clk_i") = SignalValue(t.rvfi, "clk")
        /\ \A name \in PassThrough :
             /\ t.ports["i_" \o name].op = "sig"
             /\ t.ports["i_" \o name].name = name
             /\ t.ports["i_" \o name].width = S.signals[name]

Wit_C8 ==
  /\ Len(tracers) = 2
  /\ tracers[2].rvfi > 1
  /\ tracers[2].cpu_hart = 3
  /\ heap[tracers[2].rvfi].params.xlen = 64
  /\ probe.name = "rst"
  /\ probe.bits = <<1>>
  /\ PortValue(tracers[2], "i_rst_ni") = <<0>>
  /\ PortValue(tracers[2], "i_hart_id_i")[2] = 1

(***************************************************************************)
(* C9: the sources registered with the build system are the three          *)
(* artifacts ibex_pkg, ibex_tracer_pkg, ibex_tracer, in this order, once   *)
(* per tracer constructed against the build system, without                *)
(* de-duplication.                                                         *)
(***************************************************************************)
Registered == {k \in 1..Len(tracers) : tracers[k].platform # "None"}

Thm_C9 ==
  /\ Len(sources) = 3 * Cardinality(Registered)
  /\ \A j \in 0..(Cardinality(Registered) - 1) :
       /\ sources[3 * j + 1] = "pythondata_cpu_ibex/rtl/ibex_pkg"
       /\ sources[3 * j + 2] = "pythondata_cpu_ibex/rtl/ibex_tracer_pkg"
       /\ sources[3 * j + 3] = "pythondata_cpu_ibex/rtl/ibex_tracer"

Wit_C9 ==
  /\ Len(tracers) = 2
  /\ Cardinality(Registered) = 2
  /\ Len(sliced) = 1
  /\ Len(sliced[1]) = 2
  /\ tracers[1].rvfi = sliced[1][1]
  /\ tracers[2].rvfi = sliced[1][2]
  /\ Len(sources) = 6

(***************************************************************************)
(* C10 as stated: slicing and tracer construction leave the parent bus     *)
(* exactly as constructed, nothing being recorded on it, and the slices    *)
(* are new objects distinct from the parent.                               *)
(***************************************************************************)
FreshSlices ==
  \A c \in 1..Len(sliced') :
    \A i \in 1..Len(sliced'[c]) :
      /\ sliced'[c][i] # 1
      /\ c > Len(sliced) => sliced'[c][i] \in (Len(heap) + 1)..Len(heap')

Cex_C10 ==
  [][heap # <<>> => (heap'[1] = heap[1] /\ FreshSlices)]_vars

(***************************************************************************)
(* C10 amended: slicing and tracer construction leave the parent's         *)
(* parameters, signal names, retirement-scaled names and signal widths as  *)
(* constructed, and every slice_nret call returns newly created buses      *)
(* distinct from the parent, also for N = 1; but slice_nret appends its    *)
(* statements, one per signal and lane, to the parent's own comb list      *)
(* (tracer construction adds nothing to the parent).                       *)
(***************************************************************************)
Thm_C10 ==
  [][heap # <<>>
       => /\ heap'[1].params = heap[1].params
          /\ heap'[1].signal_names = heap[1].signal_names
          /\ heap'[1].nret_signal_names = heap[1].nret_signal_names
          /\ heap'[1].signals = heap[1].signals
          /\ FreshSlices
          /\ last'.op = "slice_nret"
               => /\ Len(sliced') = Len(sliced) + 1
                  /\ Len(heap'[1].comb) =
                       Len(heap[1].comb)
                       + heap[1].params.nret * Cardinality(heap[1].signal_names)
                  /\ SubSeq(heap'[1].comb, 1, Len(heap[1].comb)) = heap[1].comb
          /\ last'.op = "tracer" => heap'[1] = heap[1]]_vars

Wit_C10 ==
  /\ Len(sliced) = 2
  /\ heap[1].params.nret = 1
  /\ AllGroups(heap[1].params)
  /\ sliced[1] = <<2>>
  /\ sliced[2] = <<3>>
  /\ Len(tracers) = 1
  /\ tracers[1].rvfi = 1
  /\ Len(heap[1].comb) = 2 * Cardinality(heap[1].signal_names)

====
